---------------------------- MODULE Spec2Model ----------------------------
(***************************************************************************)
(* A model of the message expansion engine of LLM-assistant:              *)
(* MessageExpander (src/message.py), the loaders it consults               *)
(* (src/loader.py) and the chat() flow that submits the expanded message   *)
(* to the agent (src/chatbot_engine.py).                                   *)
(*                                                                         *)
(* Strings are sequences of tokens.  The delimiters the code looks for     *)
(* ("{", "}", "|", ";", "=", ",", "-", blank, newline, the digits) are     *)
(* one token each; every other token ("note", ".txt", "https://", ...)     *)
(* stands for a run of characters that holds none of them.                 *)
(***************************************************************************)
EXTENDS Integers, Sequences, FiniteSets, TLC

VARIABLES
    base_url,      \* ConfluencePageLoader.base_url: CONFLUENCE_WIKI_URL or None
    content_list,  \* MessageExpander.content_list
    pc,            \* where the caller and expand_message stand
    caller,        \* "chat" (chatbot_engine.chat) or "direct" (any other caller)
    message,       \* the argument of the running / last expand_message call
    segments,      \* expand_message's local: _separate_message(message)
    idx,           \* 1-based position of the for loop over segments
    todo,          \* what the running loop body still has to do (appends, a raise)
    steps,         \* log of this call: per segment handled, the branch taken
    result,        \* content of the HumanMessage returned by the last call
    error,         \* the exception that left the last call, or None
    submitted,     \* what chat() passed to agent_chain.invoke, or None
    base,          \* number of segments this instance handled in earlier calls
    used           \* pieces of input consumed so far (bounds the exploration)

vars == <<base_url, content_list, pc, caller, message, segments, idx, todo,
          steps, result, error, submitted, base, used>>

(***************************************************************************)
(* Bounds of the exploration.                                              *)
(***************************************************************************)
\* Pieces (literal runs, placeholders) fed to one instance over all its calls.
MaxPieces == 3
\* Length of the values of the pages option that are explored.
MaxSelLen == 3
\* Length of the raw strings _separate_message is explored on.
MaxRawLen == 4
\* Number of pages of the local PDF document.
PdfPages == 2

(***************************************************************************)
(* Python values and string helpers.                                       *)
(***************************************************************************)
\* Python's None (a token no string holds, wrapped so it compares with strings).
None == <<"<None>">>

\* Truthiness of an optional string: None and '' are falsy.
Falsy(x) == x = None \/ x = <<>>

Whitespace == {" ", "\n"}

Digits == {"0", "1", "2", "3", "4", "5", "6", "7", "8", "9"}

DigitVal(d) ==
    CASE d = "0" -> 0 [] d = "1" -> 1 [] d = "2" -> 2 [] d = "3" -> 3
      [] d = "4" -> 4 [] d = "5" -> 5 [] d = "6" -> 6 [] d = "7" -> 7
      [] d = "8" -> 8 [] d = "9" -> 9

Range(s) == {s[k] : k \in 1..Len(s)}

Last(s) == s[Len(s)]

\* str.startswith
StartsWith(s, prefix) ==
    /\ Len(prefix) <= Len(s)
    /\ SubSeq(s, 1, Len(prefix)) = prefix

\* str.strip(): leading and trailing whitespace removed
RECURSIVE LStrip(_)
LStrip(s) ==
    IF s # <<>> /\ Head(s) \in Whitespace THEN LStrip(Tail(s)) ELSE s

RECURSIVE RStrip(_)
RStrip(s) ==
    IF s # <<>> /\ Last(s) \in Whitespace
    THEN RStrip(SubSeq(s, 1, Len(s) - 1)) ELSE s

Strip(s) == RStrip(LStrip(s))

\* Position of the first sep in s at or after k, 0 when there is none
RECURSIVE Find(_, _, _)
Find(s, sep, k) ==
    IF k > Len(s) THEN 0
    ELSE IF s[k] = sep THEN k
    ELSE Find(s, sep, k + 1)

\* str.split(sep): always at least one part
RECURSIVE Split(_, _)
Split(s, sep) ==
    LET p == Find(s, sep, 1) IN
    IF p = 0 THEN <<s>>
    ELSE <<SubSeq(s, 1, p - 1)>> \o Split(SubSeq(s, p + 1, Len(s)), sep)

\* str.split(sep, 1): one or two parts
SplitOnce(s, sep) ==
    LET p == Find(s, sep, 1) IN
    IF p = 0 THEN <<s>>
    ELSE <<SubSeq(s, 1, p - 1), SubSeq(s, p + 1, Len(s))>>

\* ''.join(parts)
RECURSIVE Concat(_)
Concat(parts) ==
    IF parts = <<>> THEN <<>> ELSE Head(parts) \o Concat(Tail(parts))

\* Whether needle occurs in s as a contiguous run
Contains(s, needle) ==
    \E k \in 0..(Len(s) - Len(needle)) :
        SubSeq(s, k + 1, k + Len(needle)) = needle

\* sorted(S) for a finite set of integers
RECURSIVE Sorted(_)
Sorted(S) ==
    IF S = {} THEN <<>>
    ELSE LET m == CHOOSE x \in S : \A y \in S : x <= y
         IN <<m>> \o Sorted(S \ {m})

\* int(s): [ok, val]; Python strips surrounding whitespace and wants digits
RECURSIVE DecimalValue(_, _)
DecimalValue(s, acc) ==
    IF s = <<>> THEN acc
    ELSE DecimalValue(Tail(s), 10 * acc + DigitVal(Head(s)))

ParseInt(s) ==
    LET t == Strip(s) IN
    IF t # <<>> /\ Range(t) \subseteq Digits
    THEN [ok |-> TRUE, val |-> DecimalValue(t, 0)]
    ELSE [ok |-> FALSE, val |-> 0]

(***************************************************************************)
(* IMPORTER_PATTERN = r'\{(.*?)\}': "{", the shortest run without newline, *)
(* "}".                                                                    *)
(***************************************************************************)
\* The end of the match starting at position k of s, 0 when none starts there
RECURSIVE CloseFrom(_, _)
CloseFrom(s, j) ==
    IF j > Len(s) THEN 0
    ELSE IF s[j] = "}" THEN j
    ELSE IF s[j] = "\n" THEN 0
    ELSE CloseFrom(s, j + 1)

MatchEnd(s, k) ==
    IF k <= Len(s) /\ s[k] = "{" THEN CloseFrom(s, k + 1) ELSE 0

\* re.match(IMPORTER_PATTERN, segment): matched?, group(1)
ReMatch(segment) ==
    LET e == MatchEnd(segment, 1) IN
    [matched |-> e # 0,
     group1 |-> IF e # 0 THEN SubSeq(segment, 2, e - 1) ELSE <<>>]

\* _separate_message: re.finditer from pos, start as in the code (1-based)
RECURSIVE SeparateFrom(_, _, _, _)
SeparateFrom(msg, pos, start, segs) ==
    IF pos > Len(msg)
    THEN IF start <= Len(msg)
         THEN Append(segs, SubSeq(msg, start, Len(msg)))
         ELSE segs
    ELSE LET e == MatchEnd(msg, pos) IN
         IF e = 0 THEN SeparateFrom(msg, pos + 1, start, segs)
         ELSE LET before == IF pos > start
                            THEN Append(segs, SubSeq(msg, start, pos - 1))
                            ELSE segs
              IN SeparateFrom(msg, e + 1, e + 1,
                              Append(before, SubSeq(msg, pos, e)))

\* A variant that starts the first literal one position late
Mut_separate_message(msg) == SeparateFrom(msg, 1, 2, <<>>)

_separate_message(msg) == SeparateFrom(msg, 1, 1, <<>>)

(***************************************************************************)
(* _parse_placeholder and the option map.                                  *)
(***************************************************************************)
\* options[key.strip()] = value.strip() for each option, in order; the dict is
\* kept as the sequence of its assignments.  ok = FALSE is the ValueError of
\* the tuple unpacking "key, value = option.split('=', 1)".
RECURSIVE ParseOptions(_)
ParseOptions(opts) ==
    IF opts = <<>> THEN [ok |-> TRUE, options |-> <<>>]
    ELSE LET kv == SplitOnce(Head(opts), "=")
             rest == ParseOptions(Tail(opts))
         IN IF Len(kv) # 2 THEN [ok |-> FALSE, options |-> <<>>]
            ELSE [ok |-> rest.ok,
                  options |-> <<[key |-> Strip(kv[1]), value |-> Strip(kv[2])]>>
                              \o rest.options]

\* dict.get(key): the last assignment to key, None when there is none
RECURSIVE DictGet(_, _)
DictGet(options, key) ==
    IF options = <<>> THEN None
    ELSE IF Last(options).key = key THEN Last(options).value
    ELSE DictGet(SubSeq(options, 1, Len(options) - 1), key)

\* _parse_placeholder(placeholder_str): ok = FALSE when it raises ValueError
\* (the unpacking of split('|') into two names, or of an option without '=')
_parse_placeholder(placeholder_str) ==
    IF "|" \notin Range(placeholder_str)
    THEN [ok |-> TRUE, path |-> placeholder_str, options |-> <<>>]
    ELSE LET parts == Split(placeholder_str, "|") IN
         IF Len(parts) # 2
         THEN [ok |-> FALSE, path |-> <<>>, options |-> <<>>]
         ELSE LET parsed == ParseOptions(Split(parts[2], ";")) IN
              [ok |-> parsed.ok,
               path |-> Strip(parts[1]),
               options |-> IF parsed.ok THEN parsed.options ELSE <<>>]

(***************************************************************************)
(* MessageExpander._parse_pages.                                           *)
(***************************************************************************)
\* One comma-separated part: [ok, pages]; ok = FALSE is a ValueError (int() of
\* a non-number, or split('-') not giving exactly two values)
PagesOfPart(part) ==
    IF "-" \in Range(part)
    THEN LET bounds == Split(part, "-") IN
         IF Len(bounds) # 2 THEN [ok |-> FALSE, pages |-> {}]
         ELSE LET lo == ParseInt(bounds[1])
                  hi == ParseInt(bounds[2])
              IN IF lo.ok /\ hi.ok
                 THEN [ok |-> TRUE, pages |-> lo.val .. hi.val]
                 ELSE [ok |-> FALSE, pages |-> {}]
    ELSE LET n == ParseInt(part) IN
         IF n.ok THEN [ok |-> TRUE, pages |-> {n.val}]
         ELSE [ok |-> FALSE, pages |-> {}]

RECURSIVE PagesOfParts(_)
PagesOfParts(parts) ==
    IF parts = <<>> THEN [ok |-> TRUE, pages |-> {}]
    ELSE LET h == PagesOfPart(Head(parts))
             t == PagesOfParts(Tail(parts))
         IN [ok |-> h.ok /\ t.ok, pages |-> h.pages \cup t.pages]

\* _parse_pages(pages): [ok, page_numbers], page_numbers the sorted list
_parse_pages(pages) ==
    LET r == PagesOfParts(Split(pages, ",")) IN
    [ok |-> r.ok, page_numbers |-> IF r.ok THEN Sorted(r.pages) ELSE <<>>]

(***************************************************************************)
(* The world outside: the wiki, the web and the local file system.         *)
(***************************************************************************)
\* The value of CONFLUENCE_WIKI_URL when it is set
WikiBase == <<"https://", "wiki">>

\* Runs that match /(?:\S+/)+pages/(\d+)/.* after the base URL
PageIdTails == {"/sp/pages/1/x"}

WikiPage == WikiBase \o <<"/sp/pages/1/x">>

\* A URL under the wiki base that names no page
WikiOther == WikiBase \o <<"/other">>

WebPage == <<"https://", "web">>

\* A web URL whose fetch fails
WebDown == <<"https://", "down">>

ImagePath == <<"pic", ".png">>

PdfPath == <<"doc", ".pdf">>

TextPath == <<"note", ".txt">>

\* What ConfluenceLoader / WebBaseLoader fetch: title is the metadata title,
\* None when the page has none; ok = FALSE when the fetch fails
Fetched(path) ==
    CASE path = WikiPage -> [ok |-> TRUE, title |-> <<"Wiki", " ", "Home">>,
                             page_content |-> <<"wiki-body">>]
      [] path = WebPage -> [ok |-> TRUE, title |-> None,
                            page_content |-> <<"web-body">>]
      [] OTHER -> [ok |-> FALSE, title |-> None, page_content |-> <<>>]

\* os.path.exists
Exists(path) == path \in {ImagePath, PdfPath, TextPath}

\* open(path).read() of the local text file
FileText(path) == <<"file-body">>

\* Number of images pdf2image.convert_from_path returns
NumPages(path) == PdfPages

ExtensionTokens == {".png", ".jpg", ".jpeg", ".gif", ".pdf", ".txt"}

\* os.path.splitext(path)[1].lower(); the extensions of the model are lower case
Extension(path) ==
    IF Len(path) >= 2 /\ Last(path) \in ExtensionTokens /\ path[Len(path) - 1] # "/"
    THEN Last(path) ELSE ""

\* os.path.basename: what follows the last "/"
RECURSIVE Basename(_)
Basename(path) ==
    LET p == Find(path, "/", 1) IN
    IF p = 0 THEN path ELSE Basename(SubSeq(path, p + 1, Len(path)))

IMAGE_EXTENSIONS == {".png", ".jpg", ".jpeg", ".gif"}

(***************************************************************************)
(* The loaders (src/loader.py).                                            *)
(***************************************************************************)
\* A variant that registers the web loader first
Mut_loaders == <<"WebPageLoader", "ConfluencePageLoader">>

\* MessageExpander.loaders, in the order __init__ registers them
loaders == <<"ConfluencePageLoader", "WebPageLoader">>

\* ConfluencePageLoader.is_target_path: url.startswith(self.base_url);
\* str.startswith(None) raises TypeError
ConfluenceIsTarget(url) ==
    IF base_url = None THEN "TypeError"
    ELSE IF StartsWith(url, base_url) THEN "yes" ELSE "no"

\* WebPageLoader.is_target_path: urlparse(path).scheme in ['http', 'https']
WebIsTarget(path) ==
    IF path # <<>> /\ Head(path) \in {"http://", "https://"} THEN "yes" ELSE "no"

is_target_path(loader, path) ==
    IF loader = "ConfluencePageLoader" THEN ConfluenceIsTarget(path)
    ELSE WebIsTarget(path)

\* ConfluencePageLoader.load: ValueError unless the URL names a page id, then
\* the page ConfluenceLoader fetches
ConfluenceLoad(path) ==
    LET n == Len(base_url)
        named == /\ StartsWith(path, base_url)
                 /\ Len(path) > n
                 /\ path[n + 1] \in PageIdTails
                 /\ "\n" \notin Range(path)
        doc == Fetched(path)
    IN IF ~named THEN [ok |-> FALSE, exc |-> "ValueError", title |-> None,
                       page_content |-> <<>>]
       ELSE IF ~doc.ok THEN [ok |-> FALSE, exc |-> "LoaderIOError",
                             title |-> None, page_content |-> <<>>]
       ELSE [ok |-> TRUE, exc |-> "", title |-> doc.title,
             page_content |-> doc.page_content]

\* WebPageLoader.load: a page without title is 'Untitled'
WebLoad(path) ==
    LET doc == Fetched(path) IN
    IF ~doc.ok THEN [ok |-> FALSE, exc |-> "LoaderIOError", title |-> None,
                     page_content |-> <<>>]
    ELSE [ok |-> TRUE, exc |-> "",
          title |-> IF Falsy(doc.title) THEN <<"Untitled">> ELSE doc.title,
          page_content |-> doc.page_content]

load(loader, path) ==
    IF loader = "ConfluencePageLoader" THEN ConfluenceLoad(path)
    ELSE WebLoad(path)

\* "for loader in self.loaders: if loader.is_target_path(path)": the first
\* loader at or after position k that accepts path, or the TypeError on the way
RECURSIVE FirstTarget(_, _, _)
FirstTarget(list, path, k) ==
    IF k > Len(list) THEN [kind |-> "none", loader |-> ""]
    ELSE LET t == is_target_path(list[k], path) IN
         IF t = "TypeError" THEN [kind |-> "raise", loader |-> list[k]]
         ELSE IF t = "yes" THEN [kind |-> "match", loader |-> list[k]]
         ELSE FirstTarget(list, path, k + 1)

(***************************************************************************)
(* The body of expand_message's loop for one segment: the branch it takes  *)
(* and, in order, the appends it makes and the exception it ends in.       *)
(* tag numbers the segment among all this instance has handled; it rides   *)
(* along with every token and block the segment contributes.               *)
(***************************************************************************)
TextOp(content, tag) == [op |-> "text", content |-> content, tag |-> tag]

ImageOp(image_type, path, page, tag) ==
    [op |-> "image",
     block |-> [type |-> "image_url",
                image_url |-> [image_type |-> image_type, file |-> path,
                               page |-> page],
                src |-> tag]]

RaiseOp(exc) == [op |-> "raise", exc |-> exc]

\* f'### {title} ###\n'
Heading(title) == <<"###", " ">> \o title \o <<" ", "###", "\n">>

\* A variant that swallows a failed load and falls back to the literal text
Mut_LoaderOps(loader, path, title, tag) ==
    LET doc == load(loader, path) IN
    IF ~doc.ok THEN <<TextOp(<<"{">> \o path \o <<"}">>, tag)>>
    ELSE LET t == IF Falsy(title) THEN doc.title ELSE title IN
         <<TextOp(Heading(t) \o doc.page_content, tag)>>

\* A variant where the loaded document's title replaces the title option
Mut_LoaderOps_DocTitle(loader, path, title, tag) ==
    LET doc == load(loader, path) IN
    IF ~doc.ok THEN <<RaiseOp(doc.exc)>>
    ELSE <<TextOp(Heading(doc.title) \o doc.page_content, tag)>>

\* Lines 45-53: a matching loader loads the page
LoaderOps(loader, path, title, tag) ==
    LET doc == load(loader, path) IN
    IF ~doc.ok THEN <<RaiseOp(doc.exc)>>
    ELSE LET t == IF Falsy(title) THEN doc.title ELSE title IN
         <<TextOp(Heading(t) \o doc.page_content, tag)>>

\* _append_image_content
ImageOps(title, path, tag) ==
    (IF Falsy(title) THEN <<>> ELSE <<TextOp(Heading(title), tag)>>)
    \o <<ImageOp(SubSeq(Extension(path), 2, Len(Extension(path))), path, 0, tag)>>

\* Whether the loop of _append_pdf_content keeps page:
\* "if page_numbers and page not in page_numbers: continue"
\* (page_numbers is [given, list]: None is given = FALSE; None and [] are falsy)
KeepsPage(page_numbers, page) ==
    ~( /\ page_numbers.given
       /\ page_numbers.list # <<>>
       /\ page \notin Range(page_numbers.list) )

\* The image blocks of pages first..last, in the order of enumerate()
RECURSIVE PageOps(_, _, _, _, _)
PageOps(path, page_numbers, first, last, tag) ==
    IF first > last THEN <<>>
    ELSE (IF KeepsPage(page_numbers, first)
          THEN <<ImageOp("jpg", path, first, tag)>> ELSE <<>>)
         \o PageOps(path, page_numbers, first + 1, last, tag)

\* A variant that walks the pages from the last to the first
RECURSIVE PageOpsDown(_, _, _, _, _)
PageOpsDown(path, page_numbers, first, last, tag) ==
    IF first > last THEN <<>>
    ELSE (IF KeepsPage(page_numbers, last)
          THEN <<ImageOp("jpg", path, last, tag)>> ELSE <<>>)
         \o PageOpsDown(path, page_numbers, first, last - 1, tag)

Mut_PdfImageOps(path, page_numbers, tag) ==
    PageOpsDown(path, page_numbers, 1, NumPages(path), tag)

\* Lines 151-163: enumerate(convert_from_path(pdf_path)), page = index + 1
PdfImageOps(path, page_numbers, tag) ==
    PageOps(path, page_numbers, 1, NumPages(path), tag)

\* page_numbers = self._parse_pages(pages_option) if pages_option else None
PdfPageNumbers(options) ==
    LET pages_option == DictGet(options, <<"pages">>) IN
    IF Falsy(pages_option)
    THEN [ok |-> TRUE, page_numbers |-> [given |-> FALSE, list |-> <<>>]]
    ELSE LET parsed == _parse_pages(pages_option) IN
         [ok |-> parsed.ok,
          page_numbers |-> [given |-> TRUE, list |-> parsed.page_numbers]]

\* _append_pdf_content
PdfOps(title, path, options, tag) ==
    LET parsed == PdfPageNumbers(options) IN
    (IF Falsy(title) THEN <<>> ELSE <<TextOp(Heading(title), tag)>>)
    \o (IF ~parsed.ok THEN <<RaiseOp("ValueError")>>
        ELSE PdfImageOps(path, parsed.page_numbers, tag))

\* The three backquotes that fence a file's content
Fence == "[fence]"

\* _append_file_content
FileOps(title, path, tag) ==
    LET file_content == FileText(path) IN
    <<TextOp(IF Falsy(title) THEN file_content
             ELSE Heading(title) \o <<Fence, "\n">> \o file_content
                  \o <<"\n", Fence, "\n">>,
             tag)>>

\* Lines 56-65: an existing local path, by extension
LocalBranch(path) ==
    IF Extension(path) \in IMAGE_EXTENSIONS THEN "image"
    ELSE IF Extension(path) = ".pdf" THEN "pdf"
    ELSE "file"

LocalOps(path, options, title0, tag) ==
    LET title == IF Falsy(title0) THEN Basename(path) ELSE title0 IN
    CASE LocalBranch(path) = "image" -> ImageOps(title, path, tag)
      [] LocalBranch(path) = "pdf" -> PdfOps(title, path, options, tag)
      [] OTHER -> FileOps(title, path, tag)

\* Lines 39-69 for one segment
LoopBody(segment, tag) ==
    LET m == ReMatch(segment) IN
    IF ~m.matched
    THEN [branch |-> "literal", loader |-> "", path |-> <<>>, options |-> <<>>,
          ops |-> <<TextOp(segment, tag)>>]
    ELSE LET ph == _parse_placeholder(m.group1) IN
         IF ~ph.ok
         THEN [branch |-> "parse_error", loader |-> "", path |-> <<>>,
               options |-> <<>>, ops |-> <<RaiseOp("ValueError")>>]
         ELSE LET title == DictGet(ph.options, <<"title">>)
                  target == FirstTarget(loaders, ph.path, 1)
              IN CASE target.kind = "raise" ->
                       [branch |-> "is_target_error", loader |-> target.loader,
                        path |-> ph.path, options |-> ph.options,
                        ops |-> <<RaiseOp("TypeError")>>]
                   [] target.kind = "match" ->
                       [branch |-> "loader", loader |-> target.loader,
                        path |-> ph.path, options |-> ph.options,
                        ops |-> LoaderOps(target.loader, ph.path, title, tag)]
                   [] OTHER ->
                       IF Exists(ph.path)
                       THEN [branch |-> LocalBranch(ph.path), loader |-> "",
                             path |-> ph.path, options |-> ph.options,
                             ops |-> LocalOps(ph.path, ph.options, title, tag)]
                       ELSE [branch |-> "fallback", loader |-> "",
                             path |-> ph.path, options |-> ph.options,
                             ops |-> <<TextOp(segment, tag)>>]

(***************************************************************************)
(* The appends.                                                            *)
(***************************************************************************)
\* A variant that never merges: every text is a block of its own
Mut_append_text_content(list, content, tag) ==
    Append(list, [type |-> "text", text |-> content,
                  src |-> [k \in 1..Len(content) |-> tag]])

\* _append_text_content: merge into a last text block, else a new block
_append_text_content(list, content, tag) ==
    IF list # <<>> /\ Last(list).type = "text"
    THEN [list EXCEPT ![Len(list)] =
             [type |-> "text",
              text |-> @.text \o <<"\n">> \o content,
              src |-> @.src \o [k \in 1..(Len(content) + 1) |-> tag]]]
    ELSE Append(list, [type |-> "text", text |-> content,
                       src |-> [k \in 1..Len(content) |-> tag]])

\* self.content_list.append of an image_url block
append_image_block(list, block) == Append(list, block)

\* A block as the program holds it: src is the model's bookkeeping
PlainBlock(b) ==
    IF b.type = "text" THEN [type |-> "text", text |-> b.text]
    ELSE [type |-> b.type, image_url |-> b.image_url]

\* Lines 71-73: a single text block is returned as a bare string
HumanMessage(list) ==
    IF Len(list) = 1 /\ list[1].type = "text"
    THEN [kind |-> "str", content |-> list[1].text]
    ELSE [kind |-> "list",
          content |-> [k \in 1..Len(list) |-> PlainBlock(list[k])]]

(***************************************************************************)
(* The inputs explored.                                                    *)
(***************************************************************************)
Placeholder(body) == <<"{">> \o body \o <<"}">>

\* The pieces messages are made of: literal text and placeholders for a wiki
\* page, a wiki URL that names no page, a web page, a web page that cannot be
\* fetched, a local image, a local PDF (whole, and with pages=0-2), a local
\* text file, a path that does not exist, and a placeholder whose option has
\* no '='
Pieces ==
    { <<"a">>,
      Placeholder(WikiPage),
      Placeholder(WikiOther),
      Placeholder(WebPage),
      Placeholder(WebDown),
      Placeholder(ImagePath),
      Placeholder(PdfPath),
      Placeholder(PdfPath \o <<"|", "pages", "=", "0", "-", "2">>),
      Placeholder(TextPath),
      Placeholder(<<"not", "/", "a", "/", "real", "/", "path">>),
      Placeholder(<<"foo", ".txt", "|", "badoption">>) }

\* The messages made of exactly k pieces
RECURSIVE MessagesOf(_)
MessagesOf(k) ==
    IF k = 0 THEN {<<>>}
    ELSE {p \o m : p \in Pieces, m \in MessagesOf(k - 1)}

RawAlphabet == {"{", "}", "a", "\n"}

\* Every string over RawAlphabet of length at most MaxRawLen
RawStrings == UNION {[1..n -> RawAlphabet] : n \in 0..MaxRawLen}

(***************************************************************************)
(* The state machine: one MessageExpander, called by chat() or directly.   *)
(***************************************************************************)
NoMessage == [kind |-> "none", content |-> <<>>]

\* After MessageExpander(): the environment may or may not set the wiki URL
Init ==
    /\ base_url \in {None, WikiBase}
    /\ content_list = <<>>
    /\ pc = "idle"
    /\ caller = "direct"
    /\ message = <<>>
    /\ segments = <<>>
    /\ idx = 1
    /\ todo = <<>>
    /\ steps = <<>>
    /\ result = NoMessage
    /\ error = ""
    /\ submitted = NoMessage
    /\ base = 0
    /\ used = 0

\* No call is running: the caller may call again
CanCall ==
    \/ pc \in {"idle", "raised", "responded"}
    \/ pc = "returned" /\ caller = "direct"

\* Line 38: expand_message(m) is entered on the instance as it stands
Enter(m, who, k) ==
    /\ CanCall
    /\ caller' = who
    /\ message' = m
    /\ segments' = _separate_message(m)
    /\ idx' = 1
    /\ todo' = <<>>
    /\ steps' = <<>>
    /\ result' = NoMessage
    /\ error' = ""
    /\ submitted' = NoMessage
    /\ pc' = "loop"
    /\ used' = used + k
    /\ UNCHANGED base_url

\* A caller that keeps its MessageExpander calls expand_message on it again
expand_message ==
    \E k \in 0..(MaxPieces - used) : \E m \in MessagesOf(k) :
        /\ Enter(m, "direct", k)
        /\ content_list' = content_list
        /\ base' = base + Len(segments)

\* chatbot_engine.chat, line 131: MessageExpander().expand_message(message)
chat ==
    \E k \in 0..(MaxPieces - used) : \E m \in MessagesOf(k) :
        /\ Enter(m, "chat", k)
        /\ content_list' = <<>>
        /\ base' = 0

\* Lines 39-69: the loop takes the next segment and decides what to do with it
loop_body ==
    /\ pc = "loop"
    /\ todo = <<>>
    /\ idx <= Len(segments)
    /\ LET b == LoopBody(segments[idx], base + idx) IN
       /\ todo' = b.ops
       /\ steps' = Append(steps, [seg |-> idx, branch |-> b.branch,
                                  loader |-> b.loader, path |-> b.path,
                                  options |-> b.options])
    /\ idx' = idx + 1
    /\ UNCHANGED <<base_url, content_list, pc, caller, message, segments,
                   result, error, submitted, base, used>>

\* One call of _append_text_content
append_text ==
    /\ pc = "loop"
    /\ todo # <<>>
    /\ Head(todo).op = "text"
    /\ content_list' =
           _append_text_content(content_list, Head(todo).content, Head(todo).tag)
    /\ todo' = Tail(todo)
    /\ UNCHANGED <<base_url, pc, caller, message, segments, idx, steps, result,
                   error, submitted, base, used>>

\* One content_list.append of an image block (lines 126 and 158)
append_image ==
    /\ pc = "loop"
    /\ todo # <<>>
    /\ Head(todo).op = "image"
    /\ content_list' = append_image_block(content_list, Head(todo).block)
    /\ todo' = Tail(todo)
    /\ UNCHANGED <<base_url, pc, caller, message, segments, idx, steps, result,
                   error, submitted, base, used>>

\* An exception leaves expand_message (nothing in it, nor in chat, catches)
raise ==
    /\ pc = "loop"
    /\ todo # <<>>
    /\ Head(todo).op = "raise"
    /\ pc' = "raised"
    /\ error' = Head(todo).exc
    /\ todo' = <<>>
    /\ UNCHANGED <<base_url, content_list, caller, message, segments, idx,
                   steps, result, submitted, base, used>>

\* Lines 71-73
return ==
    /\ pc = "loop"
    /\ todo = <<>>
    /\ idx > Len(segments)
    /\ result' = HumanMessage(content_list)
    /\ pc' = "returned"
    /\ UNCHANGED <<base_url, content_list, caller, message, segments, idx,
                   todo, steps, error, submitted, base, used>>

\* chatbot_engine.chat, line 133: agent_chain.invoke({'input': messages})
agent_invoke ==
    /\ pc = "returned"
    /\ caller = "chat"
    /\ submitted' = result
    /\ pc' = "responded"
    /\ UNCHANGED <<base_url, content_list, caller, message, segments, idx,
                   todo, steps, result, error, base, used>>

Next ==
    \/ expand_message
    \/ chat
    \/ loop_body
    \/ append_text
    \/ append_image
    \/ raise
    \/ return
    \/ agent_invoke

Spec == Init /\ [][Next]_vars

(***************************************************************************)
(* _separate_message on its own, over every short string.                  *)
(***************************************************************************)
InitSeparate ==
    /\ base_url = None
    /\ content_list = <<>>
    /\ pc = "raw"
    /\ caller = "direct"
    /\ message \in RawStrings
    /\ segments = <<>>
    /\ idx = 1
    /\ todo = <<>>
    /\ steps = <<>>
    /\ result = NoMessage
    /\ error = ""
    /\ submitted = NoMessage
    /\ base = 0
    /\ used = 0

separate ==
    /\ pc = "raw"
    /\ segments' = _separate_message(message)
    /\ pc' = "separated"
    /\ UNCHANGED <<base_url, content_list, caller, message, idx, todo, steps,
                   result, error, submitted, base, used>>

NextSeparate == separate

SpecSeparate == InitSeparate /\ [][NextSeparate]_vars

(***************************************************************************)
(* One placeholder on a fresh MessageExpander, over many spellings of its  *)
(* body.                                                                   *)
(***************************************************************************)
SelAlphabet == {"1", "2", "3", "5", ",", "-"}

\* Every value of a pages option of 1..MaxSelLen tokens
Selectors == UNION {[1..n -> SelAlphabet] : n \in 1..MaxSelLen}

\* The local PDF with each of these values
PdfBodies == {PdfPath \o <<"|", "pages", "=">> \o sel : sel \in Selectors}

\* Blanks around a locator
Pads == {<<>>, <<" ">>}

\* What may follow a locator: nothing, or '|' and a title option
OptionTails ==
    { <<>>,
      <<"|", "title", "=">>,
      <<"|", "title", "=", "My">>,
      <<"|", " ", "title", " ", "=", " ", "My", " ">> }

\* Local files, with and without blanks around the locator
LocalBodies ==
    { l \o path \o r \o tail :
          l \in Pads, r \in Pads, path \in {TextPath, ImagePath},
          tail \in OptionTails }

\* URLs; blanks around the locator only where '|' follows
UrlBodies ==
    {WikiPage, WebPage, WebDown}
    \cup { l \o path \o r \o tail :
               l \in Pads, r \in Pads, path \in {WikiPage, WebPage, WebDown},
               tail \in OptionTails \ {<<>>} }

PlaceholderBodies == PdfBodies \cup LocalBodies \cup UrlBodies

PlaceholderMessages == {Placeholder(body) : body \in PlaceholderBodies}

\* The first call on the instance, with a message that is one placeholder
expand_placeholder ==
    /\ pc = "idle"
    /\ \E m \in PlaceholderMessages :
           /\ Enter(m, "direct", 1)
           /\ content_list' = content_list
           /\ base' = 0

NextPlaceholder ==
    \/ expand_placeholder
    \/ loop_body
    \/ append_text
    \/ append_image
    \/ raise
    \/ return

SpecPlaceholder == Init /\ [][NextPlaceholder]_vars

(***************************************************************************)
(* What the claims speak of.                                               *)
(***************************************************************************)
\* The loop body of segment j (1..Len(steps)) has run to its end
BodyDone(j) == j < Len(steps) \/ todo = <<>>

\* The exception that left the call came out of the body of segment j
RaisedAt(j) == pc = "raised" /\ j = Len(steps)

\* The tags of the tokens and blocks of a block list, in order
RECURSIVE FlatSrc(_)
FlatSrc(list) ==
    IF list = <<>> THEN <<>>
    ELSE (IF Head(list).type = "text" THEN Head(list).src ELSE <<Head(list).src>>)
         \o FlatSrc(Tail(list))

\* All the text of a block list, block after block
RECURSIVE AllText(_)
AllText(list) ==
    IF list = <<>> THEN <<>>
    ELSE (IF Head(list).type = "text" THEN Head(list).text ELSE <<>>)
         \o AllText(Tail(list))

IsText(b) == b.type = "text"

IsImage(b) == b.type = "image_url"

(***************************************************************************)
(* C1: in every state, also in the middle of a call, content_list holds no *)
(* two consecutive text blocks; where a text block holds the text of two   *)
(* appends, the later one starts with the '\n' that joins them.            *)
(***************************************************************************)
Thm_C1_NoAdjacentText ==
    /\ \A k \in 1..(Len(content_list) - 1) :
           ~(IsText(content_list[k]) /\ IsText(content_list[k + 1]))
    /\ \A k \in 1..Len(content_list) :
           IsText(content_list[k]) =>
               \A j \in 1..(Len(content_list[k].src) - 1) :
                   content_list[k].src[j] # content_list[k].src[j + 1] =>
                       content_list[k].text[j + 1] = "\n"

\* A text append was merged into the text block before it, and a text block
\* follows an image block
Wit_C1_Merged ==
    /\ \E k \in 1..Len(content_list) :
           /\ IsText(content_list[k])
           /\ \E i, j \in 1..Len(content_list[k].src) :
                  content_list[k].src[i] # content_list[k].src[j]
    /\ \E k \in 1..(Len(content_list) - 1) :
           IsImage(content_list[k]) /\ IsText(content_list[k + 1])

(***************************************************************************)
(* C2: a call that returns gives what a call on a fresh MessageExpander    *)
(* gives for the same message, whatever was expanded on the instance       *)
(* before.                                                                 *)
(***************************************************************************)
\* The appends of ops made on list, up to the first raise
RECURSIVE RunOps(_, _)
RunOps(list, ops) ==
    IF ops = <<>> THEN [list |-> list, raised |-> FALSE]
    ELSE IF Head(ops).op = "raise" THEN [list |-> list, raised |-> TRUE]
    ELSE IF Head(ops).op = "text"
    THEN RunOps(_append_text_content(list, Head(ops).content, Head(ops).tag),
                Tail(ops))
    ELSE RunOps(append_image_block(list, Head(ops).block), Tail(ops))

RECURSIVE RunLoop(_, _, _)
RunLoop(list, segs, i) ==
    IF i > Len(segs) THEN [list |-> list, raised |-> FALSE]
    ELSE LET r == RunOps(list, LoopBody(segs[i], i).ops) IN
         IF r.raised THEN r ELSE RunLoop(r.list, segs, i + 1)

\* What expand_message(msg) returns when content_list is empty at its start
FreshResult(msg) ==
    LET r == RunLoop(<<>>, _separate_message(msg), 1) IN
    IF r.raised THEN NoMessage ELSE HumanMessage(r.list)

\* C2: every call that returns gives the result of a call on a fresh instance
CE_C2_Stateless == pc = "returned" => result = FreshResult(message)

(***************************************************************************)
(* C3: the tokens and blocks of content_list stand in the order of the     *)
(* segments they come from, and the page images of one PDF placeholder     *)
(* stand in ascending page order.                                          *)
(***************************************************************************)
Thm_C3_Order ==
    /\ \A j \in 1..(Len(FlatSrc(content_list)) - 1) :
           FlatSrc(content_list)[j] <= FlatSrc(content_list)[j + 1]
    /\ \A k, l \in 1..Len(content_list) :
           ( /\ k < l
             /\ IsImage(content_list[k])
             /\ IsImage(content_list[l])
             /\ content_list[k].src = content_list[l].src )
           => content_list[k].image_url.page < content_list[l].image_url.page

\* A returned call whose message had three segments that all left something,
\* one of them a PDF that gave two page images
Wit_C3_Order ==
    /\ pc = "returned"
    /\ Len(segments) >= 3
    /\ \A i \in 1..Len(segments) :
           \E j \in 1..Len(FlatSrc(content_list)) :
               FlatSrc(content_list)[j] = base + i
    /\ \E k \in 1..(Len(content_list) - 1) :
           /\ IsImage(content_list[k])
           /\ IsImage(content_list[k + 1])
           /\ content_list[k].src = content_list[k + 1].src
           /\ content_list[k].image_url.page = 1
           /\ content_list[k + 1].image_url.page = 2

(***************************************************************************)
(* C4: a call none of whose segments took the image or the PDF branch      *)
(* returns a bare string.                                                  *)
(***************************************************************************)
CE_C4_BareString ==
    ( /\ pc = "returned"
      /\ \A j \in 1..Len(steps) : steps[j].branch \notin {"image", "pdf"} )
    => result.kind = "str"

(***************************************************************************)
(* C5: the body of a placeholder whose option part has a pair without '='  *)
(* does not raise, and leaves the placeholder, delimiters included, in the *)
(* text.                                                                   *)
(***************************************************************************)
\* segment is a placeholder with one '|' and an option that has no '='
HasOptionWithoutEq(segment) ==
    /\ ReMatch(segment).matched
    /\ LET parts == Split(ReMatch(segment).group1, "|") IN
       /\ Len(parts) = 2
       /\ \E k \in 1..Len(Split(parts[2], ";")) :
              "=" \notin Range(Split(parts[2], ";")[k])

\* C5: a placeholder with an option without '=' does not raise and stays as text
CE_C5_MalformedOption ==
    \A j \in 1..Len(steps) :
        (HasOptionWithoutEq(segments[j]) /\ BodyDone(j)) =>
            /\ ~RaisedAt(j)
            /\ Contains(AllText(content_list), segments[j])

(***************************************************************************)
(* C6: the body of a placeholder whose locator no loader accepts and that  *)
(* is no existing path does not raise, leaves the placeholder as written   *)
(* in the text and adds no image block.                                    *)
(***************************************************************************)
\* segment is a placeholder that parses, that neither loader answers yes to
\* and that names no existing path
Unresolved(segment) ==
    /\ ReMatch(segment).matched
    /\ LET ph == _parse_placeholder(ReMatch(segment).group1) IN
       /\ ph.ok
       /\ \A k \in 1..Len(loaders) : is_target_path(loaders[k], ph.path) # "yes"
       /\ ~Exists(ph.path)

\* C6: an unresolved placeholder does not raise and stays as text, with no image
CE_C6_Unresolved ==
    \A j \in 1..Len(steps) :
        (Unresolved(segments[j]) /\ BodyDone(j)) =>
            /\ ~RaisedAt(j)
            /\ Contains(AllText(content_list), segments[j])
            /\ \A k \in 1..Len(content_list) :
                   IsImage(content_list[k]) => content_list[k].src # base + j

(***************************************************************************)
(* C7: the segments of _separate_message, concatenated in order, are the   *)
(* message; none is empty; the empty message has no segment and a message  *)
(* without a placeholder match is one segment.                             *)
(***************************************************************************)
HasMatch(msg) == \E k \in 1..Len(msg) : MatchEnd(msg, k) # 0

\* C7: the segments partition the message
Thm_C7_Partition ==
    pc = "separated" =>
        /\ Concat(segments) = message
        /\ \A k \in 1..Len(segments) : segments[k] # <<>>
        /\ message = <<>> => segments = <<>>
        /\ (message # <<>> /\ ~HasMatch(message)) => segments = <<message>>

\* Text, a placeholder and text again; and elsewhere an unclosed brace
Wit_C7_Partition ==
    /\ pc = "separated"
    /\ Len(segments) = 3
    /\ ~ReMatch(segments[1]).matched
    /\ ReMatch(segments[2]).matched
    /\ ~ReMatch(segments[3]).matched
    /\ "{" \in Range(segments[3])

(***************************************************************************)
(* C8: a locator is handled by the first loader of [ConfluencePageLoader,  *)
(* WebPageLoader] that accepts it: a locator both accept goes to the wiki  *)
(* loader, and a locator a loader accepts never takes a local branch.      *)
(***************************************************************************)
Thm_C8_Precedence ==
    \A j \in 1..Len(steps) :
        LET e == steps[j] IN
        /\ (e.branch = "loader" /\ ConfluenceIsTarget(e.path) = "yes")
               => e.loader = "ConfluencePageLoader"
        /\ (e.branch = "loader" /\ e.loader = "WebPageLoader")
               => (ConfluenceIsTarget(e.path) = "no" /\ WebIsTarget(e.path) = "yes")
        /\ ( /\ e.branch \notin {"literal", "parse_error", "is_target_error"}
             /\ (ConfluenceIsTarget(e.path) = "yes" \/ WebIsTarget(e.path) = "yes") )
               => e.branch = "loader"
        /\ (e.branch = "loader" /\ BodyDone(j) /\ ~RaisedAt(j))
               => Contains(AllText(content_list), load(e.loader, e.path).page_content)

\* A locator both loaders accept was loaded, and by the wiki loader
Wit_C8_Precedence ==
    \E j \in 1..Len(steps) :
        /\ steps[j].branch = "loader"
        /\ ConfluenceIsTarget(steps[j].path) = "yes"
        /\ WebIsTarget(steps[j].path) = "yes"
        /\ steps[j].loader = "ConfluencePageLoader"
        /\ BodyDone(j)
        /\ Contains(AllText(content_list), <<"wiki-body">>)

(***************************************************************************)
(* C9: when load of the matching loader fails, the loop goes no further,   *)
(* the exception leaves expand_message, nothing of the segment is put in   *)
(* content_list, no message is returned and the agent is not invoked.      *)
(***************************************************************************)
LoadFailed(e) == e.branch = "loader" /\ ~load(e.loader, e.path).ok

\* C9: a failed load leaves expand_message as an exception; the agent is not invoked
Thm_C9_LoadFailure ==
    \A j \in 1..Len(steps) :
        LoadFailed(steps[j]) =>
            /\ j = Len(steps)
            /\ \/ pc = "raised" /\ error = load(steps[j].loader, steps[j].path).exc
               \/ pc = "loop" /\ Len(todo) = 1 /\ Head(todo).op = "raise"
            /\ \A k \in 1..Len(FlatSrc(content_list)) :
                   FlatSrc(content_list)[k] # base + j
            /\ result = NoMessage
            /\ submitted = NoMessage

\* chat() was left by the exception of a failed load, after an earlier segment
\* had already put text in content_list
Wit_C9_LoadFailure ==
    /\ pc = "raised"
    /\ caller = "chat"
    /\ Len(steps) >= 2
    /\ LoadFailed(steps[Len(steps)])
    /\ content_list # <<>>
    /\ submitted = NoMessage

(***************************************************************************)
(* C10: the body of a local-PDF placeholder whose pages option gives a     *)
(* page number below 1 ends in an exception.                               *)
(***************************************************************************)
\* The pages option of options parses and holds a number below 1
HasPageBelowOne(options) ==
    /\ ~Falsy(DictGet(options, <<"pages">>))
    /\ LET r == PagesOfParts(Split(DictGet(options, <<"pages">>), ",")) IN
       r.ok /\ \E n \in r.pages : n < 1

\* C10: a pages option that gives a page number below 1 is rejected
CE_C10_PageBelowOne ==
    \A j \in 1..Len(steps) :
        ( /\ steps[j].branch = "pdf"
          /\ HasPageBelowOne(steps[j].options)
          /\ BodyDone(j) )
        => RaisedAt(j)

(***************************************************************************)
(* C11: without CONFLUENCE_WIKI_URL the wiki loader answers false for      *)
(* every locator, and no call is left by an exception of its               *)
(* is_target_path.                                                         *)
(***************************************************************************)
\* Segment j was a placeholder that parsed: its locator was put to the loaders
Resolved(j) == steps[j].branch \notin {"literal", "parse_error"}

\* C11: with the wiki URL unset the wiki loader never matches and never raises
CE_C11_NoWikiUrl ==
    base_url = None =>
        \A j \in 1..Len(steps) :
            Resolved(j) =>
                /\ ConfluenceIsTarget(steps[j].path) = "no"
                /\ BodyDone(j) => ~(RaisedAt(j) /\ error = "TypeError")

(***************************************************************************)
(* C12: for a local PDF with a pages option that parses, the image blocks  *)
(* are those of the pages of the document that are in the parsed set, one  *)
(* each, and no others, also when the set is empty.                        *)
(***************************************************************************)
\* The page numbers of the image blocks of a block list, in order
RECURSIVE ImagePages(_)
ImagePages(list) ==
    IF list = <<>> THEN <<>>
    ELSE (IF IsImage(Head(list)) THEN <<Head(list).image_url.page>> ELSE <<>>)
         \o ImagePages(Tail(list))

\* The pages option of options is supplied and parses
PagesSupplied(options) ==
    /\ ~Falsy(DictGet(options, <<"pages">>))
    /\ PagesOfParts(Split(DictGet(options, <<"pages">>), ",")).ok

\* The set of page numbers the pages option of options names
PagesNamed(options) ==
    PagesOfParts(Split(DictGet(options, <<"pages">>), ",")).pages

\* C12: only the pages in the parsed set are appended, also when it is empty
CE_C12_OnlySelectedPages ==
    ( /\ pc = "returned"
      /\ Len(steps) = 1
      /\ steps[1].branch = "pdf"
      /\ PagesSupplied(steps[1].options) )
    => ImagePages(content_list)
           = Sorted(PagesNamed(steps[1].options) \cap 1..NumPages(steps[1].path))


\* The placeholder body of the segment of step j: group 1 of IMPORTER_PATTERN
BodyOf(j) == ReMatch(segments[steps[j].seg]).group1

\* C13: the locator is the body, or what precedes '|', without blanks around
\* it, and a body without '|' has no options
CE_C13_TrimmedLocator ==
    \A j \in 1..Len(steps) :
        Resolved(j) =>
            /\ steps[j].path = Strip(Split(BodyOf(j), "|")[1])
            /\ "|" \notin Range(BodyOf(j)) => steps[j].options = <<>>

\* Step j was resolved by a loader and its load succeeded
Loaded(j) == steps[j].branch = "loader" /\ BodyDone(j) /\ ~RaisedAt(j)

TitleOption(j) == DictGet(steps[j].options, <<"title">>)

\* The text of the only block of the list, <<>> when the list is not one text
OnlyText ==
    IF Len(content_list) = 1 /\ content_list[1].type = "text"
    THEN content_list[1].text ELSE <<>>

\* C14: the heading carries the title option when it is present and not
\* empty, otherwise the title of the loaded document; there always is a
\* heading line
Thm_C14_HeadingTitle ==
    \A j \in 1..Len(steps) :
        Loaded(j) =>
            LET doc == load(steps[j].loader, steps[j].path)
                title == IF TitleOption(j) \notin {None, <<>>}
                         THEN TitleOption(j) ELSE doc.title
            IN /\ title # None
               /\ OnlyText = Heading(title) \o doc.page_content

\* A wiki page loaded with a title option that differs from the page's title
Wit_C14_HeadingTitle ==
    /\ pc = "returned"
    /\ Len(steps) = 1
    /\ Loaded(1)
    /\ steps[1].loader = "ConfluencePageLoader"
    /\ TitleOption(1) = <<"My">>
    /\ load(steps[1].loader, steps[1].path).title # <<"My">>
    /\ OnlyText = Heading(<<"My">>) \o <<"wiki-body">>

\* C14 as stated: the title option whenever it is present, otherwise the
\* loader's title, otherwise no heading line
CE_C14_TitleOptionPresent ==
    \A j \in 1..Len(steps) :
        Loaded(j) =>
            LET doc == load(steps[j].loader, steps[j].path)
                title == IF TitleOption(j) # None THEN TitleOption(j)
                         ELSE doc.title
            IN OnlyText = IF title = None THEN doc.page_content
                          ELSE Heading(title) \o doc.page_content
=============================================================================
